---- MODULE Spec2Model ----
(***************************************************************************)
(* Model of claude-memory-tools: the session ingestion pipeline            *)
(* (import_all_sessions.py) and the store's command line                   *)
(* (memory_search.py).                                                     *)
(*                                                                         *)
(* Text is modelled symbolically.  A text is a sequence of fragments; a    *)
(* fragment is a run of characters of known length and known origin:      *)
(*   k    "raw"      content of a record as it stands in the session file  *)
(*        "scrubbed" content that scrub_sensitive has returned             *)
(*        "label"    the speaker label the extractor writes                *)
(*        "sep"      the blank-line separator between lines                *)
(*        "lit"      any other literal the code writes                     *)
(*   who  the speaker of a label ("User", "Claude", ...), "" otherwise     *)
(*   n    the number of characters                                         *)
(*   sec  how many of them belong to a match of a SENSITIVE_PATTERNS rule  *)
(*   at   where that match starts in the fragment                          *)
(*   w20  the characters its first 20 words span                           *)
(*   s1   the characters of its first sentence when that sentence has 3    *)
(*        to 25 words, 0 otherwise                                         *)
(*   lead whether it opens with one of is_topic_shift's lead-in phrases    *)
(***************************************************************************)
EXTENDS Integers, Sequences, FiniteSets, TLC

VARIABLES
    \* chunk_session, run on its own
    messages, text_parts, chunks, current_chunk, current_size, chunk_num, i, cpc,
    \* the session files under CLAUDE_PROJECTS and the store file at DB_PATH
    files, disk,
    \* main of import_all_sessions.py: where it is, its locals, its connection
    pc, do_import, conn, jsonl_files, existing_sources, fi, pending, ci,
    total_imported, skipped,
    \* what import_chunk has returned in this run, the import runs that have committed,
    \* the edits of the store between runs, the store errors raised
    returned, runs, edits, faults, interrupted

chunkVars == <<messages, text_parts, chunks, current_chunk, current_size, chunk_num, i, cpc>>

mainVars == <<pc, do_import, conn, jsonl_files, existing_sources, fi, pending, ci,
              total_imported, skipped, returned, runs, edits, faults, interrupted>>

vars == <<chunkVars, files, disk, mainVars>>

\* ---------------------------------------------------------------- bounds
MaxMsgs == 3
MaxRuns == 2
MaxEdits == 1
MaxFaults == 1
MaxCmd == 120

\* ------------------------------------------------------------- constants
CHUNK_SIZE == 4000
REDACTED_API_KEY_LEN == 18

Min(a, b) == IF a < b THEN a ELSE b

\* ------------------------------------------------------------- text
Frag(k, who, n, sec, at, w20, s1, lead) ==
    [k |-> k, who |-> who, n |-> n, sec |-> sec, at |-> at,
     w20 |-> w20, s1 |-> s1, lead |-> lead]

Lit(k, who, n) == Frag(k, who, n, 0, 0, n, 0, FALSE)

Sep == Lit("sep", "", 2)

RECURSIVE TextLen(_)
TextLen(t) == IF t = <<>> THEN 0 ELSE Head(t).n + TextLen(Tail(t))

\* f[:c] for one fragment, 0 < c < f.n
CutFrag(f, c) ==
    [f EXCEPT !.n = c,
              !.sec = IF f.at < c THEN Min(f.at + f.sec, c) - f.at ELSE 0,
              !.w20 = Min(f.w20, c),
              !.s1 = IF f.s1 <= c THEN f.s1 ELSE 0]

\* t[:c]
RECURSIVE Take(_, _)
Take(t, c) ==
    IF t = <<>> \/ c <= 0 THEN <<>>
    ELSE IF Head(t).n <= c THEN <<Head(t)>> \o Take(Tail(t), c - Head(t).n)
    ELSE <<CutFrag(Head(t), c)>>

\* sep.join(parts), parts a sequence of texts
RECURSIVE Join(_)
Join(parts) ==
    IF parts = <<>> THEN <<>>
    ELSE IF Len(parts) = 1 THEN parts[1]
    ELSE parts[1] \o <<Sep>> \o Join(Tail(parts))

\* ------------------------------------------------------------- records
\* One decoded line of a session file: its type and its stripped content.
Msg(type, n, sec, at, w20, s1, lead) ==
    [type |-> type, n |-> n, sec |-> sec, at |-> at, w20 |-> w20, s1 |-> s1, lead |-> lead]

\* msg's content before anything has processed it
RawContent(msg) ==
    IF msg.n = 0 THEN <<>>
    ELSE <<Frag("raw", "", msg.n, msg.sec, msg.at, msg.w20, msg.s1, msg.lead)>>

IsContent(f) == f.k \in {"raw", "scrubbed"}

\* A record whose content is a list of one tool_use block, a Bash call with a
\* command of cmd characters.
BashUse(cmd) == [type |-> "assistant", tool |-> "Bash", cmd |-> cmd]
IsToolUse(msg) == "tool" \in DOMAIN msg

\* lines 99-101: cmd = inp.get("command", "?")[:80]; f"[Bash: {cmd}]"
tool_annotation(msg) ==
    <<Lit("lit", "[Bash: ", 7)>>
    \o (IF msg.cmd > 0 THEN <<Frag("raw", "", Min(msg.cmd, 80), 0, 0, Min(msg.cmd, 80), 0, FALSE)>>
        ELSE <<>>)
    \o <<Lit("lit", "]", 1)>>

\* export_chat.py lines 66-70: over 100 characters, the first 100 and "...";
\* the opening and the closing literal each hold a backquote besides
export_annotation(msg) ==
    <<Lit("lit", "*[Bash: ", 9)>>
    \o (IF msg.cmd > 0 THEN <<Frag("raw", "", Min(msg.cmd, 100), 0, 0, Min(msg.cmd, 100), 0, FALSE)>>
        ELSE <<>>)
    \o (IF msg.cmd > 100 THEN <<Lit("lit", "...", 3)>> ELSE <<>>)
    \o <<Lit("lit", "]*", 3)>>

\* the content extract_text_from_message hands to scrub_sensitive
Content(msg) == IF IsToolUse(msg) THEN tool_annotation(msg) ELSE RawContent(msg)

\* ------------------------------------------------------------- scrubbing
\* pattern.sub(replacement, text) on one fragment: the match goes, the token comes
ScrubFrag(f) ==
    IF f.k = "raw"
    THEN [f EXCEPT !.k = "scrubbed",
                   !.n = IF f.sec > 0 THEN f.n - f.sec + REDACTED_API_KEY_LEN ELSE f.n,
                   !.sec = 0,
                   !.w20 = IF f.sec > 0 /\ f.at < f.w20
                           THEN f.w20 - f.sec + REDACTED_API_KEY_LEN ELSE f.w20,
                   !.s1 = IF f.sec > 0 /\ f.s1 > 0 /\ f.at < f.s1
                          THEN f.s1 - f.sec + REDACTED_API_KEY_LEN ELSE f.s1]
    ELSE f

scrub_sensitive(text) == [j \in 1..Len(text) |-> ScrubFrag(text[j])]

\* ------------------------------------------------------------- extraction
Bookkeeping == {"queue-operation", "file-history-snapshot", "summary", "unknown"}

\* role.title() for the roles of the model
Speaker(role) ==
    CASE role = "user" -> "User"
      [] role = "assistant" -> "Claude"
      [] OTHER -> "System"

\* f"**{prefix}:** " : the speaker's name and six more characters
Label(role) == Lit("label", Speaker(role), Len(Speaker(role)) + 6)

extract_text_from_message(msg) ==
    IF msg.type \in Bookkeeping THEN <<>>
    ELSE LET text == scrub_sensitive(Content(msg))
         IN IF text = <<>> THEN <<>> ELSE <<Label(msg.type)>> \o text

RECURSIVE extract_first_user_message(_)
extract_first_user_message(msgs) ==
    IF msgs = <<>> THEN <<>>
    ELSE IF Head(msgs).type = "user" /\ ~IsToolUse(Head(msgs)) /\ Head(msgs).n > 10
         THEN Take(RawContent(Head(msgs)), 150)
         ELSE extract_first_user_message(Tail(msgs))

\* the folder names of the model hold nothing derive_project_name strips or replaces
derive_project_name(folder_name) ==
    IF folder_name = <<>> THEN Lit("lit", "General", 7) ELSE Lit("lit", folder_name, Len(folder_name))

\* ------------------------------------------------------------- summaries
\* re.sub(r'\*\*([^*]+)\*\*', r'\1', text): a label loses its four asterisks
StripBold(text) ==
    [j \in 1..Len(text) |->
        IF text[j].k = "label" THEN [text[j] EXCEPT !.n = text[j].n - 4, !.w20 = text[j].n - 4]
        ELSE text[j]]

\* " ".join(text.split()[:20]): whole fragments up to the one the 20th word ends in;
\* a separator between them becomes one blank
RECURSIVE First20Words(_)
First20Words(text) ==
    IF text = <<>> THEN <<>>
    ELSE LET f == Head(text)
         IN IF IsContent(f) /\ f.w20 < f.n THEN <<CutFrag(f, f.w20)>>
            ELSE <<IF f.k = "sep" THEN Lit("lit", "", 1) ELSE f>> \o First20Words(Tail(text))

\* the text up to the end of the first sentence of its first line, <<>> when that
\* line has no sentence of 3 to 25 words
FirstSentence(text) ==
    LET c == {j \in 1..Len(text) : IsContent(text[j])}
        s == {j \in 1..Len(text) : text[j].k = "sep"}
    IN IF c = {} THEN <<>>
       ELSE LET j == CHOOSE x \in c : \A y \in c : x <= y
            IN IF text[j].s1 > 0 /\ \A y \in s : y > j
               THEN SubSeq(text, 1, j - 1) \o <<CutFrag(text[j], text[j].s1)>>
               ELSE <<>>

generate_summary(text) ==
    LET t == StripBold(text)
    IN IF FirstSentence(t) # <<>> THEN FirstSentence(t)
       ELSE IF t # <<>> THEN First20Words(t) \o <<Lit("lit", "", 3)>>
       ELSE Take(t, 100)

\* a line of the session: <<its label, its scrubbed content>>
IsUserPart(part) == part # <<>> /\ part[1].k = "label" /\ part[1].who = "User"
PartMsg(part) == SubSeq(part, 2, Len(part))

generate_chunk_summary(chunk_parts, project_name, num) ==
    LET user_topics == {j \in 1..Len(chunk_parts) :
                           IsUserPart(chunk_parts[j]) /\ TextLen(PartMsg(chunk_parts[j])) > 20}
        topic_text ==
            IF user_topics # {}
            THEN LET topic == PartMsg(chunk_parts[CHOOSE x \in user_topics : \A y \in user_topics : x <= y])
                 IN First20Words(topic) \o
                    (IF First20Words(topic) # topic THEN <<Lit("lit", "", 3)>> ELSE <<>>)
            ELSE generate_summary(chunk_parts[1])
        \* "Session ", the name, " pt", the number, ": "
        prefix == <<Lit("lit", "Session pt", 8 + project_name.n + 3 + (IF num < 10 THEN 1 ELSE 2) + 2)>>
    IN Take(prefix \o topic_text, 200)

\* ------------------------------------------------------------- chunking
is_topic_shift(part, prev_part) ==
    IF ~IsUserPart(part) THEN FALSE
    ELSE LET msg == PartMsg(part)
         IN IF TextLen(msg) < 30 THEN FALSE
            ELSE IF msg[1].lead THEN TRUE
            ELSE IF prev_part # <<>> /\ prev_part[1].who = "Claude" /\ TextLen(msg) > 80 THEN TRUE
            ELSE FALSE

\* for msg in messages: text = extract_text_from_message(msg); if text: append
RECURSIVE ExtractAll(_)
ExtractAll(msgs) ==
    IF msgs = <<>> THEN <<>>
    ELSE LET text == extract_text_from_message(Head(msgs))
         IN (IF text # <<>> THEN <<text>> ELSE <<>>) \o ExtractAll(Tail(msgs))

\* "If small enough, single chunk"
SingleChunk(msgs, parts, project) ==
    LET full_text == Join(parts)
        topic == extract_first_user_message(msgs)
        summary == <<Lit("lit", "Session in", 11 + derive_project_name(project).n + 2)>>
                   \o generate_summary(IF topic # <<>> THEN topic ELSE full_text)
    IN <<[content |-> full_text, summary |-> Take(summary, 200)]>>

\* the comparison with < for <=
IsSmall_strict(parts) == TextLen(Join(parts)) < CHUNK_SIZE

\* if len(full_text) <= CHUNK_SIZE
IsSmall(parts) == TextLen(Join(parts)) <= CHUNK_SIZE

\* the topic test without the floor of a third of the budget
should_split_anysize(st, part, prev_part) ==
    /\ st.current_chunk # <<>>
    /\ \/ st.current_size + TextLen(part) > CHUNK_SIZE
       \/ is_topic_shift(part, prev_part)

should_split(st, part, prev_part) ==
    /\ st.current_chunk # <<>>
    /\ \/ st.current_size + TextLen(part) > CHUNK_SIZE
       \/ st.current_size > CHUNK_SIZE \div 3 /\ is_topic_shift(part, prev_part)

CloseChunk(st, project) ==
    [content |-> Join(st.current_chunk),
     summary |-> generate_chunk_summary(st.current_chunk, derive_project_name(project),
                                        st.chunk_num + 1)]

\* one pass of "for i, part in enumerate(text_parts)", j the 1-based index
LoopBody(st, parts, j, project) ==
    LET part == parts[j]
        prev_part == IF j > 1 THEN parts[j - 1] ELSE <<>>
    IN IF should_split(st, part, prev_part)
       THEN [chunks |-> Append(st.chunks, CloseChunk(st, project)),
             current_chunk |-> <<part>>,
             current_size |-> TextLen(part),
             chunk_num |-> st.chunk_num + 1]
       ELSE [st EXCEPT !.current_chunk = Append(st.current_chunk, part),
                       !.current_size = st.current_size + TextLen(part)]

\* the return without the flush of the lines still held
LastChunk_skip(st, project) == st

\* "Last chunk"
LastChunk(st, project) ==
    IF st.current_chunk # <<>>
    THEN [st EXCEPT !.chunks = Append(st.chunks, CloseChunk(st, project)),
                    !.chunk_num = st.chunk_num + 1]
    ELSE st

LoopInit == [chunks |-> <<>>, current_chunk |-> <<>>, current_size |-> 0, chunk_num |-> 0]

RECURSIVE LoopFrom(_, _, _, _)
LoopFrom(st, parts, j, project) ==
    IF j > Len(parts) THEN st ELSE LoopFrom(LoopBody(st, parts, j, project), parts, j + 1, project)

chunk_session(msgs, project) ==
    LET parts == ExtractAll(msgs)
    IN IF parts = <<>> THEN <<>>
       ELSE IF IsSmall(parts) THEN SingleChunk(msgs, parts, project)
       ELSE LastChunk(LoopFrom(LoopInit, parts, 1, project), project).chunks

\* ------------------------------------------------------------- names and LIKE
\* A name (a folder, a stem, an id, a query) is a sequence of symbols.
IsPrefix(a, b) == Len(a) <= Len(b) /\ SubSeq(b, 1, Len(a)) = a

\* a in b, for Python strings
IsSubstring(a, b) ==
    \E k \in 0..(Len(b) - Len(a)) : SubSeq(b, k + 1, k + Len(a)) = a

\* SQLite folds the case of ASCII letters when LIKE compares them
Fold(c) ==
    CASE c = "M" -> "m"
      [] c = "A" -> "a"
      [] OTHER -> c

\* s LIKE pat: % is any run of symbols, _ any one symbol, letters compare folded
RECURSIVE Like(_, _)
Like(s, pat) ==
    IF pat = <<>> THEN s = <<>>
    ELSE IF Head(pat) = "%"
         THEN \E k \in 0..Len(s) : Like(SubSeq(s, k + 1, Len(s)), Tail(pat))
    ELSE IF s = <<>> THEN FALSE
    ELSE /\ Head(pat) = "_" \/ Fold(Head(pat)) = Fold(Head(s))
         /\ Like(Tail(s), Tail(pat))

\* ------------------------------------------------------------- the store
\* A store is [memories, fts]: the rows of each table in rowid order.
\* metadata is the object json.dumps serialises and json.loads gives back.
EmptyStore == [memories |-> <<>>, fts |-> <<>>]

Hex == <<"1", "2", "3", "4", "5", "6", "7", "8", "9", "a", "b", "c", "d", "e", "f">>

\* f"mem_{uuid.uuid4().hex[:24]}": an id no row of the table has, here the one
\* numbered by the k rows the table holds
memory_id(k) == <<"m", "_", Hex[k]>>

Ids(rows) == {rows[j].id : j \in 1..Len(rows)}
Active(rows) == SelectSeq(rows, LAMBDA r : r.is_deleted = 0)
FtsRow(r) == [memory_id |-> r.id, content |-> r.content, summary |-> r.summary]

\* the row import_to_memory.py writes for a markdown file
MarkdownRow(id, filename, now) ==
    [id |-> id, content |-> <<Lit("lit", "", 40)>>, type |-> "fact", importance |-> 7,
     created_at |-> now, last_accessed |-> now, is_deleted |-> 0,
     summary |-> <<Lit("lit", "", 20)>>, access_count |-> 0,
     metadata |-> [source |-> <<"markdown-import">>, filename |-> filename, chunk |-> -1]]

\* metadata LIKE '%claude-session%' on the serialised object: any of its strings holds it
MetadataLike(meta, word) ==
    IsSubstring(<<word>>, meta.source) \/ IsSubstring(<<word>>, meta.filename)

\* the query without its AND is_deleted = 0
get_existing_sources_any(store) ==
    {store.memories[j].metadata.filename : j \in
        {x \in 1..Len(store.memories) :
            MetadataLike(store.memories[x].metadata, "claude-session")}}

\* the query with the deleted rows instead of the live ones
get_existing_sources_deleted(store) ==
    {store.memories[j].metadata.filename : j \in
        {x \in 1..Len(store.memories) :
            /\ MetadataLike(store.memories[x].metadata, "claude-session")
            /\ store.memories[x].is_deleted = 1}}

get_existing_sources(store) ==
    {store.memories[j].metadata.filename : j \in
        {x \in 1..Len(store.memories) :
            /\ MetadataLike(store.memories[x].metadata, "claude-session")
            /\ store.memories[x].is_deleted = 0}}

\* import_chunk without its except clause: the error leaves the function
import_chunk_uncaught(store, content, summary, source_file, chunk_idx, now_ms, id, fault) ==
    [store |-> store, ok |-> fault = "none", raised |-> fault # "none"]

\* import_chunk: the two INSERTs; fault names the write that raises sqlite3.Error
\* ("none", "memories", "memories_fts").  The except clause turns the error into
\* the result False: raised says whether an exception leaves the function.
\* importance is in tenths.
import_chunk(store, content, summary, source_file, chunk_idx, now_ms, id, fault) ==
    LET row == [id |-> id, content |-> content, type |-> "fact", importance |-> 5,
                created_at |-> now_ms, last_accessed |-> now_ms, is_deleted |-> 0,
                summary |-> summary, access_count |-> 0,
                metadata |-> [source |-> <<"claude-session">>, filename |-> source_file,
                              chunk |-> chunk_idx]]
    IN IF fault = "memories" THEN [store |-> store, ok |-> FALSE, raised |-> FALSE]
       ELSE IF fault = "memories_fts"
            THEN [store |-> [store EXCEPT !.memories = Append(@, row)],
                  ok |-> FALSE, raised |-> FALSE]
       ELSE [store |-> [memories |-> Append(store.memories, row),
                        fts |-> Append(store.fts, FtsRow(row))],
             ok |-> TRUE, raised |-> FALSE]

\* the INSERT ... SELECT without its WHERE is_deleted = 0
rebuild_fts_all(store) ==
    [store EXCEPT !.fts = [j \in 1..Len(store.memories) |-> FtsRow(store.memories[j])]]

rebuild_fts(store) ==
    LET live == Active(store.memories)
    IN [store EXCEPT !.fts = [j \in 1..Len(live) |-> FtsRow(live[j])]]

\* ------------------------------------------------------------- memory_search.py
\* content LIKE '%query%'; the literal words a content of the model holds are its
\* speakers' names
ContentLike(content, query) ==
    query = <<>> \/ \E j \in 1..Len(content) : IsSubstring(query, <<content[j].who>>)

search(store, query) ==
    SelectSeq(store.memories, LAMBDA r : r.is_deleted = 0 /\ ContentLike(r.content, query))

list_all(store) == SelectSeq(store.memories, LAMBDA r : r.is_deleted = 0)

\* the rows soft_delete's SELECT matches: id LIKE 'memory_id%' AND is_deleted = 0
DeleteMatches(store, prefix) ==
    {j \in 1..Len(store.memories) :
        /\ Like(store.memories[j].id, prefix \o <<"%">>)
        /\ store.memories[j].is_deleted = 0}

\* the UPDATE of the row fetchone returned, row j
soft_delete(store, j) ==
    [store EXCEPT !.memories =
        [x \in 1..Len(@) |-> IF @[x].id = @[j].id THEN [@[x] EXCEPT !.is_deleted = 1] ELSE @[x]]]

\* ------------------------------------------------------------- the session files
User(n, sec, at, w20, s1, lead) == Msg("user", n, sec, at, w20, s1, lead)
Claude(n) == Msg("assistant", n, 0, 0, Min(n, 120), 0, FALSE)
Marker == Msg("summary", 50, 0, 0, 50, 0, FALSE)

\* one bookkeeping record and five turns, 500-odd characters; the first user turn
\* holds an API key
SmallSession ==
    <<Marker, User(60, 40, 10, 60, 0, FALSE), Claude(100), User(2, 0, 0, 2, 0, FALSE),
      Claude(200), User(90, 0, 0, 90, 40, TRUE)>>

\* five turns, more than the budget
BigSession ==
    <<User(1990, 0, 0, 120, 60, FALSE), Claude(1988), User(1400, 0, 0, 120, 0, TRUE),
      Claude(1988), User(2, 0, 0, 2, 0, FALSE)>>

ShortSession == <<User(90, 0, 0, 90, 40, TRUE), Claude(100), User(60, 40, 10, 60, 0, FALSE), Claude(100)>>

MarkerSession == <<Marker, Marker, Marker, Marker, Marker>>

\* sorted(CLAUDE_PROJECTS.iterdir()) x sorted(project_dir.glob("*.jsonl"))
AllFiles ==
    <<[project |-> <<"p">>, stem |-> <<"agent-", "1">>, msgs |-> SmallSession],
      [project |-> <<"p">>, stem |-> <<"s", "1">>, msgs |-> SmallSession],
      [project |-> <<"p">>, stem |-> <<"s", "1", "2">>, msgs |-> BigSession],
      [project |-> <<"p">>, stem |-> <<"t">>, msgs |-> ShortSession],
      [project |-> <<"p">>, stem |-> <<"u">>, msgs |-> MarkerSession]>>

\* f"{project}_{jsonl_path.stem}"
SourceName(f) == f.project \o <<"_">> \o f.stem

IsAgentLog(f) == IsPrefix(<<"agent-">>, f.stem)

NoConn == [open |-> FALSE, store |-> EmptyStore]

InitialStore ==
    LET row == MarkdownRow(<<"m", "_", "0">>, <<"n", ".md">>, 0)
    IN [memories |-> <<row>>, fts |-> <<FtsRow(row)>>]

\* DB_PATH when no file stands there, and when the file sqlite3.connect has made
\* stands there: no bytes, no tables
NoFile == [file |-> "absent"]
BlankFile == [file |-> "blank"]
HasTables(store) == "memories" \in DOMAIN store

Modes == {"full", "import-only", "convert-only", "rebuild-fts", "import-only convert-only"}
\* do_import = "--convert-only" not in sys.argv, for the modes that reach the loop
DoImport(m) == m \in {"full", "import-only"}

ChunkOff ==
    /\ messages = <<>>
    /\ text_parts = <<>>
    /\ chunks = <<>>
    /\ current_chunk = <<>>
    /\ current_size = 0
    /\ chunk_num = 0
    /\ i = 0
    /\ cpc = "off"

MainIdle(p) ==
    /\ pc = p
    /\ do_import = FALSE
    /\ conn = NoConn
    /\ jsonl_files = <<>>
    /\ existing_sources = {}
    /\ fi = 0
    /\ pending = <<>>
    /\ ci = 0
    /\ total_imported = 0
    /\ skipped = 0
    /\ returned = {}
    /\ runs = 0
    /\ edits = 0
    /\ faults = 0
    /\ interrupted = FALSE

PipelineOff ==
    /\ files = <<>>
    /\ disk = EmptyStore
    /\ MainIdle("off")

Init ==
    /\ ChunkOff
    /\ files \in {AllFiles} \cup {SelectSeq(AllFiles, LAMBDA f : f # AllFiles[j]) : j \in 1..Len(AllFiles)}
    /\ disk = InitialStore
    /\ MainIdle("idle")

\* no process of the tools is running
Stopped == pc = "idle"

\* lines 346-384: the mode, the files, the connection, the sources, the counters
Start(m) ==
    /\ Stopped
    /\ DoImport(m) => runs < MaxRuns
    /\ do_import' = DoImport(m)
    /\ returned' = {}
    /\ total_imported' = 0
    /\ skipped' = 0
    /\ pending' = <<>>
    /\ ci' = 0
    /\ IF m = "rebuild-fts" THEN
           IF HasTables(disk) THEN
               \* connect, rebuild_fts, commit, close
               /\ disk' = rebuild_fts(disk)
               /\ conn' = NoConn
               /\ pc' = "done"
               /\ UNCHANGED <<jsonl_files, existing_sources, fi>>
           ELSE
               \* line 347 asks nothing of DB_PATH: connect makes the file when its
               \* folder is there and raises when it is not; on a file without tables
               \* the DELETE of rebuild_fts raises, and nothing catches either error
               /\ disk' \in (IF disk = NoFile THEN {NoFile, BlankFile} ELSE {disk})
               /\ conn' = NoConn
               /\ pc' = "crashed"
               /\ UNCHANGED <<jsonl_files, existing_sources, fi>>
       ELSE
           /\ jsonl_files' = SelectSeq(files, LAMBDA f : ~IsAgentLog(f))
           /\ UNCHANGED disk
           /\ IF m = "import-only convert-only" THEN
                  /\ conn' = NoConn
                  /\ pc' = "done"
                  /\ UNCHANGED <<existing_sources, fi>>
              ELSE IF DoImport(m) /\ disk = NoFile THEN
                  \* lines 373-375: the message and sys.exit(1)
                  /\ conn' = NoConn
                  /\ pc' = "fatal"
                  /\ UNCHANGED <<existing_sources, fi>>
              ELSE IF DoImport(m) /\ ~HasTables(disk) THEN
                  \* the SELECT of get_existing_sources raises on a file without tables
                  /\ conn' = NoConn
                  /\ pc' = "crashed"
                  /\ UNCHANGED <<existing_sources, fi>>
              ELSE
                  /\ conn' = IF DoImport(m) THEN [open |-> TRUE, store |-> disk] ELSE NoConn
                  /\ pc' = "files"
                  /\ fi' = 1
                  /\ existing_sources' = IF DoImport(m) THEN get_existing_sources(disk) ELSE {}
    /\ UNCHANGED <<chunkVars, files, runs, edits, faults, interrupted>>

\* the threshold one too low
TooFew_four(msgs) == Len(msgs) < 4

\* if len(messages) < 5
TooFew(msgs) == Len(msgs) < 5

\* lines 386-418: one session file, up to its chunks
NextFile ==
    /\ pc = "files"
    /\ fi <= Len(jsonl_files)
    /\ LET f == jsonl_files[fi]
           source_name == SourceName(f)
           session_chunks == chunk_session(f.msgs, f.project)
       IN IF \/ \E src \in existing_sources : IsSubstring(source_name, src)
             \/ TooFew(f.msgs)
             \/ session_chunks = <<>>
          THEN /\ skipped' = skipped + 1
               /\ fi' = fi + 1
               /\ UNCHANGED <<pc, pending>>
          ELSE IF conn.open
          THEN /\ pc' = "chunks"
               /\ pending' = session_chunks
               /\ UNCHANGED <<fi, skipped>>
          ELSE /\ fi' = fi + 1
               /\ UNCHANGED <<pc, pending, skipped>>
    /\ ci' = 0
    /\ UNCHANGED <<chunkVars, files, do_import, disk, conn, jsonl_files, existing_sources,
                   total_imported, returned, runs, edits, faults, interrupted>>

\* lines 421-424: one chunk of the session through import_chunk
ImportChunk(fault) ==
    /\ pc = "chunks"
    /\ fault # "none" => faults < MaxFaults
    /\ faults' = IF fault # "none" THEN faults + 1 ELSE faults
    /\ LET source_name == SourceName(jsonl_files[fi])
           chunk == pending[ci + 1]
           res == import_chunk(conn.store, chunk.content, chunk.summary, source_name, ci,
                               runs + 1, memory_id(Len(conn.store.memories)), fault)
       IN IF res.raised
          THEN \* an exception nothing catches ends main: no commit, no rebuild
               /\ pc' = "crashed"
               /\ conn' = NoConn
               /\ UNCHANGED <<returned, total_imported, ci, fi, pending>>
          ELSE /\ pc' = IF ci + 1 < Len(pending) THEN "chunks" ELSE "files"
               /\ conn' = [conn EXCEPT !.store = res.store]
               /\ returned' = returned \cup
                      {[source_file |-> source_name, chunk_idx |-> ci, ok |-> res.ok]}
               /\ total_imported' = IF res.ok THEN total_imported + 1 ELSE total_imported
               /\ IF ci + 1 < Len(pending)
                  THEN /\ ci' = ci + 1
                       /\ UNCHANGED <<fi, pending>>
                  ELSE /\ ci' = 0
                       /\ pending' = <<>>
                       /\ fi' = fi + 1
    /\ UNCHANGED <<chunkVars, files, do_import, disk, jsonl_files, existing_sources,
                   skipped, runs, edits, interrupted>>

\* lines 426-428: conn.commit() after the last file
Commit ==
    /\ pc = "files"
    /\ fi > Len(jsonl_files)
    /\ IF conn.open
       THEN /\ disk' = conn.store
            /\ runs' = runs + 1
            /\ pc' = "rebuild"
       ELSE /\ pc' = "done"
            /\ UNCHANGED <<disk, runs>>
    /\ UNCHANGED <<chunkVars, files, do_import, conn, jsonl_files, existing_sources, fi, pending,
                   ci, total_imported, skipped, returned, edits, faults, interrupted>>

\* lines 430-433: rebuild_fts(conn), commit, close
Rebuild ==
    /\ pc = "rebuild"
    /\ disk' = rebuild_fts(conn.store)
    /\ conn' = NoConn
    /\ pc' = "done"
    /\ UNCHANGED <<chunkVars, files, do_import, jsonl_files, existing_sources, fi, pending,
                   ci, total_imported, skipped, returned, runs, edits, faults, interrupted>>

\* the process is stopped from outside: its locals are gone, and what its connection
\* has not committed is lost
Interrupt ==
    /\ pc \in {"files", "chunks", "rebuild"}
    /\ conn' = NoConn
    /\ pc' = "killed"
    /\ jsonl_files' = <<>>
    /\ existing_sources' = {}
    /\ fi' = 0
    /\ pending' = <<>>
    /\ ci' = 0
    /\ total_imported' = 0
    /\ skipped' = 0
    /\ returned' = {}
    /\ interrupted' = TRUE
    /\ UNCHANGED <<chunkVars, files, do_import, disk, runs, edits, faults>>

\* the process has ended, one way or another: its locals are gone
Exit ==
    /\ pc \in {"done", "killed", "crashed", "fatal"}
    /\ pc' = "idle"
    /\ do_import' = FALSE
    /\ conn' = NoConn
    /\ jsonl_files' = <<>>
    /\ existing_sources' = {}
    /\ fi' = 0
    /\ pending' = <<>>
    /\ ci' = 0
    /\ total_imported' = 0
    /\ skipped' = 0
    /\ returned' = {}
    /\ UNCHANGED <<chunkVars, files, disk, runs, edits, faults, interrupted>>

\* memory_search.py --delete prefix
PrefixArgs == {<<"m">>, <<"m", "_", "1">>, <<"M", "_", "1">>, <<"m", "_", "a">>, <<"%">>, <<"z">>}

SoftDelete(prefix) ==
    /\ Stopped
    /\ edits < MaxEdits
    /\ edits' = edits + 1
    /\ IF DeleteMatches(disk, prefix) = {}
       THEN UNCHANGED disk
       ELSE \E j \in DeleteMatches(disk, prefix) : disk' = soft_delete(disk, j)
    /\ UNCHANGED <<chunkVars, files, do_import, pc, conn, jsonl_files, existing_sources, fi,
                   pending, ci, total_imported, skipped, returned, runs, faults, interrupted>>

\* the mirror drifts: somebody empties it, or a row of it is written twice
CorruptMirror ==
    /\ Stopped
    /\ edits < MaxEdits
    /\ edits' = edits + 1
    /\ disk.fts # <<>>
    /\ \/ disk' = [disk EXCEPT !.fts = <<>>]
       \/ disk' = [disk EXCEPT !.fts = Append(@, @[1])]
    /\ UNCHANGED <<chunkVars, files, do_import, pc, conn, jsonl_files, existing_sources, fi,
                   pending, ci, total_imported, skipped, returned, runs, faults, interrupted>>

Next ==
    \/ \E m \in Modes : Start(m)
    \/ NextFile
    \/ \E fault \in {"none", "memories", "memories_fts"} : ImportChunk(fault)
    \/ Commit
    \/ Rebuild
    \/ Interrupt
    \/ Exit
    \/ \E prefix \in PrefixArgs : SoftDelete(prefix)
    \/ CorruptMirror

Spec == Init /\ [][Next]_vars

\* ------------------------------------------------------------- main without a store
\* The runs of main when no file stands at DB_PATH at first.  No connection is ever
\* open in them, so the steps that need one are left out of the next-state relation.
InitMissing ==
    /\ ChunkOff
    /\ files \in {AllFiles} \cup {SelectSeq(AllFiles, LAMBDA f : f # AllFiles[j]) : j \in 1..Len(AllFiles)}
    /\ disk = NoFile
    /\ MainIdle("idle")

NextMissing ==
    \/ \E m \in Modes : Start(m)
    \/ NextFile
    \/ Commit
    \/ Interrupt
    \/ Exit

SpecMissing == InitMissing /\ [][NextMissing]_vars

\* C12 as stated: with no file at DB_PATH, a convert-only run goes into its loop
\* without a connection, every mode that writes ends in an error, and no mode makes
\* a store file.
MissingStoreNeverCreated ==
    [][\A m \in Modes : disk = NoFile /\ Start(m) =>
          /\ disk' = NoFile
          /\ m = "convert-only" => pc' = "files" /\ ~conn'.open
          /\ m \in {"full", "import-only", "rebuild-fts"} => pc' \in {"fatal", "crashed"}]_vars

\* ------------------------------------------------------------- claims
Stores == {disk, conn.store}
Rows(store) == {store.memories[j] : j \in 1..Len(store.memories)}
SessionRows(store) == {r \in Rows(store) : r.metadata.source = <<"claude-session">>}
FtsRows(store) == {store.fts[j] : j \in 1..Len(store.fts)}
RowOf(source_file, chunk_idx, now) ==
    {r \in SessionRows(disk) : /\ r.metadata.filename = source_file
                               /\ r.metadata.chunk = chunk_idx
                               /\ r.created_at = now}
\* a session main hands to import_chunk unless a stored source holds its identity
Importable(f) == Len(f.msgs) >= 5 /\ ExtractAll(f.msgs) # <<>>
\* an import run has ended; it was the second, nothing touched the store in between
\* and no run was stopped
SecondRunEnded == pc = "done" /\ do_import /\ runs = 2 /\ edits = 0 /\ ~interrupted

HoldsSecret(text) == \E j \in 1..Len(text) : text[j].sec > 0
Written(st) ==
    {r \in SessionRows(st) : \E x \in returned : /\ x.ok
                                                 /\ r.metadata.filename = x.source_file
                                                 /\ r.metadata.chunk = x.chunk_idx
                                                 /\ r.created_at = IF st = disk THEN runs ELSE runs + 1}
NoRawSecretStored ==
    \A st \in Stores :
        \A r \in Written(st) :
            /\ ~HoldsSecret(r.content) /\ ~HoldsSecret(r.summary)
            /\ \A m \in FtsRows(st) :
                   m.memory_id = r.id => ~HoldsSecret(m.content) /\ ~HoldsSecret(m.summary)

\* C5 as stated: once the run has committed, a chunk import_chunk reported as failed
\* has no row in memories and none in memories_fts.
FailedChunkNotStored ==
    pc \in {"rebuild", "done"} /\ do_import =>
        \A x \in returned : ~x.ok =>
            LET ids == {r.id : r \in RowOf(x.source_file, x.chunk_idx, runs)}
            IN /\ ids = {}
               /\ \A m \in FtsRows(disk) : m.memory_id \notin ids

\* C6 as stated: when a run is stopped from outside, the rows of the chunks
\* import_chunk had returned success for are in the store afterwards.
SuccessfulChunksSurviveInterrupt ==
    [][Interrupt =>
         \A x \in returned : x.ok =>
             \E r \in SessionRows(disk') : /\ r.metadata.filename = x.source_file
                                           /\ r.metadata.chunk = x.chunk_idx]_vars

\* the mirror holds one row for each live row of memories and no other row
MirrorExact(st) ==
    LET live == {r \in Rows(st) : r.is_deleted = 0}
    IN /\ {m.memory_id : m \in FtsRows(st)} = {r.id : r \in live}
       /\ Len(st.fts) = Cardinality(live)

\* C4: whatever the two tables held, after rebuild_fts has run and its run has
\* committed, memories_fts holds exactly one row for each row of memories with
\* is_deleted = 0, and memories is as it was.
RebuildRestoresMirror ==
    [][(Rebuild \/ Start("rebuild-fts")) =>
          /\ disk'.memories = (IF pc = "rebuild" THEN conn.store ELSE disk).memories
          /\ MirrorExact(disk')]_vars

\* a rebuild has run on a store with a soft-deleted row, whose mirror row is gone
RebuiltAfterDelete ==
    /\ pc = "done"
    /\ \E r \in Rows(disk) : r.is_deleted = 1
    /\ \E r \in Rows(disk) : r.is_deleted = 0
    /\ MirrorExact(disk)

\* C8 as stated: soft_delete(prefix) flips is_deleted of exactly one live row whose
\* id begins with prefix, letter for letter, when there is one, and changes nothing
\* when there is none; the mirror keeps all its rows; search and list_all no longer
\* return the row.
Queries == {<<>>, <<"User">>, <<"Claude">>}
SoftDeleteByPrefix ==
    [][\A prefix \in PrefixArgs : SoftDelete(prefix) =>
          LET hits == {j \in 1..Len(disk.memories) :
                          /\ IsPrefix(prefix, disk.memories[j].id)
                          /\ disk.memories[j].is_deleted = 0}
              gone == {disk.memories[j].id : j \in
                          {x \in 1..Len(disk.memories) : disk'.memories[x] # disk.memories[x]}}
          IN /\ IF hits = {} THEN disk' = disk
                ELSE \E j \in hits :
                         disk'.memories = [disk.memories EXCEPT ![j].is_deleted = 1]
             /\ disk'.fts = disk.fts
             /\ gone \cap Ids(list_all(disk')) = {}
             /\ \A q \in Queries : gone \cap Ids(search(disk', q)) = {}]_vars

\* C9: a session row in the store is the row of a file with at least 5 records
\* whose stem does not begin with agent-; and the pass of main's loop over a file
\* with fewer than 5 records counts it as skipped, writes nothing, holds no chunk
\* and goes on to the next file.
OnlyEligibleSessionsStored ==
    /\ [](\A st \in Stores : \A r \in SessionRows(st) :
             \E j \in 1..Len(files) :
                 /\ SourceName(files[j]) = r.metadata.filename
                 /\ Len(files[j].msgs) >= 5
                 /\ ~IsPrefix(<<"agent-">>, files[j].stem))
    /\ [](\A j \in 1..Len(jsonl_files) : ~IsPrefix(<<"agent-">>, jsonl_files[j].stem))
    /\ [][NextFile /\ Len(jsonl_files[fi].msgs) < 5 =>
             /\ skipped' = skipped + 1
             /\ fi' = fi + 1
             /\ pc' = "files"
             /\ pending' = <<>>
             /\ conn' = conn /\ disk' = disk]_vars

\* an import run over an agent log, a short session and sessions it imported
SkippedAndImported ==
    /\ pc = "done" /\ do_import
    /\ \E j \in 1..Len(files) : IsPrefix(<<"agent-">>, files[j].stem)
    /\ \E j \in 1..Len(jsonl_files) : Len(jsonl_files[j].msgs) < 5
    /\ skipped >= 2
    /\ total_imported >= 2

\* C10: a chunk import_chunk fails on is not counted, the loop goes on to the next
\* chunk or the next file, the run that ends has attempted every chunk of every
\* session it did not skip, and no error of import_chunk ever leaves main's loop.
FailureDoesNotAbort ==
    /\ [][\A fault \in {"memories", "memories_fts"} : ImportChunk(fault) =>
             /\ total_imported' = total_imported
             /\ pc' = (IF ci + 1 < Len(pending) THEN "chunks" ELSE "files")
             /\ ci + 1 < Len(pending) => ci' = ci + 1 /\ fi' = fi
             /\ ci + 1 >= Len(pending) => fi' = fi + 1]_vars
    /\ [](pc \in {"rebuild", "done"} /\ do_import =>
             /\ total_imported = Cardinality({x \in returned : x.ok})
             /\ \A j \in 1..Len(jsonl_files) :
                    LET f == jsonl_files[j]
                    IN (Importable(f) /\ \A src \in existing_sources :
                                             ~IsSubstring(SourceName(f), src))
                       => \A idx \in 0..(Len(chunk_session(f.msgs, f.project)) - 1) :
                              \E x \in returned : /\ x.source_file = SourceName(f)
                                                  /\ x.chunk_idx = idx)
    /\ [](pc # "crashed")

\* a run that ended after a chunk failed and a later chunk was imported
EndedAfterFailure ==
    /\ pc = "done" /\ do_import
    /\ \E x, y \in returned : /\ ~x.ok /\ y.ok
                              /\ x.source_file = y.source_file
                              /\ x.chunk_idx < y.chunk_idx
    /\ MirrorExact(disk)

\* some row of rows records a source filename that holds f's identity
HeldBy(rows, f) == \E r \in rows : IsSubstring(SourceName(f), r.metadata.filename)

\* the session rows of the store that are not deleted
LiveSessionRows(store) == {r \in SessionRows(store) : r.is_deleted = 0}

\* C14 as stated: in an import run, the pass over a file skips it as a duplicate
\* when some row of the store the run started on records a source filename that
\* holds its identity, and hands its chunks on when none does and the session has
\* 5 records and a line.
DuplicateWhenAnyRowHolds ==
    [][NextFile /\ do_import =>
          LET f == jsonl_files[fi]
          IN /\ HeldBy(Rows(disk), f) =>
                    skipped' = skipped + 1 /\ fi' = fi + 1 /\ pc' = "files"
             /\ ~HeldBy(Rows(disk), f) /\ Importable(f) =>
                    pc' = "chunks" /\ pending' = chunk_session(f.msgs, f.project)]_vars

\* C14, amended: the rows that count are the session rows that are not deleted.
\* The pass skips the file when one of them holds its identity; when none does and
\* the session has 5 records and a line, its chunks are handed on, and whatever
\* import_chunk has been called with is a chunk of such a session under its identity.
DuplicateWhenLiveSessionRowHolds ==
    /\ [][NextFile /\ do_import =>
             LET f == jsonl_files[fi]
             IN /\ HeldBy(LiveSessionRows(disk), f) =>
                       skipped' = skipped + 1 /\ fi' = fi + 1 /\ pc' = "files"
                /\ ~HeldBy(LiveSessionRows(disk), f) /\ Importable(f) =>
                       pc' = "chunks" /\ pending' = chunk_session(f.msgs, f.project)]_vars
    /\ [](pc \in {"files", "chunks"} /\ do_import =>
             \A x \in returned :
                 \E j \in 1..Len(jsonl_files) :
                     LET f == jsonl_files[j]
                     IN /\ j <= fi
                        /\ x.source_file = SourceName(f)
                        /\ Importable(f)
                        /\ ~HeldBy(LiveSessionRows(disk), f)
                        /\ x.chunk_idx < Len(chunk_session(f.msgs, f.project)))

\* a second run has skipped a session that has no row of its own: its identity is
\* held in the source filename of another session's row
SkippedBySubstring ==
    /\ pc = "files" /\ do_import
    /\ fi = 2 /\ skipped = 1
    /\ \A r \in Rows(disk) : r.metadata.filename # SourceName(jsonl_files[1])
    /\ HeldBy(LiveSessionRows(disk), jsonl_files[1])

\* ------------------------------------------------------------- chunk_session, step by step
\* The records the chunker is tried on: every speaker, lengths on both sides of the
\* budget, of a third of it, and of is_topic_shift's 30 and 80, a secret, a
\* bookkeeping record and a record without text.
MsgKinds ==
    { Msg("user", 2, 0, 0, 2, 0, FALSE),
      Msg("user", 1400, 0, 0, 120, 0, TRUE),
      Msg("user", 1323, 0, 0, 120, 0, FALSE),
      Msg("user", 1990, 0, 0, 120, 60, FALSE),
      Msg("user", 60, 40, 10, 60, 0, FALSE),
      Msg("user", 0, 0, 0, 0, 0, FALSE),
      Msg("assistant", 1988, 0, 0, 120, 0, FALSE),
      Msg("assistant", 1986, 0, 0, 120, 50, FALSE),
      Msg("assistant", 4100, 0, 0, 120, 0, FALSE),
      Msg("system", 100, 0, 0, 100, 0, FALSE),
      Msg("summary", 50, 0, 0, 50, 0, FALSE) }

RECURSIVE SeqsUpTo(_, _)
SeqsUpTo(S, k) ==
    IF k = 0 THEN {<<>>}
    ELSE LET shorter == SeqsUpTo(S, k - 1)
         IN shorter \cup {Append(q, x) : q \in {r \in shorter : Len(r) = k - 1}, x \in S}

ChunkProject == <<"p">>

LoopState == [chunks |-> chunks, current_chunk |-> current_chunk,
              current_size |-> current_size, chunk_num |-> chunk_num]

ChunkInit ==
    /\ PipelineOff
    /\ messages \in SeqsUpTo(MsgKinds, MaxMsgs)
    /\ text_parts = <<>>
    /\ chunks = <<>>
    /\ current_chunk = <<>>
    /\ current_size = 0
    /\ chunk_num = 0
    /\ i = 0
    /\ cpc = "extract"

\* lines 235-251: extraction, the empty session, the single chunk
ChunkExtract ==
    /\ cpc = "extract"
    /\ text_parts' = ExtractAll(messages)
    /\ IF text_parts' = <<>> THEN
           /\ cpc' = "returned"
           /\ UNCHANGED chunks
       ELSE IF IsSmall(text_parts') THEN
           /\ cpc' = "returned"
           /\ chunks' = SingleChunk(messages, text_parts', ChunkProject)
       ELSE
           /\ cpc' = "loop"
           /\ UNCHANGED chunks
    /\ UNCHANGED <<messages, current_chunk, current_size, chunk_num, i>>
    /\ UNCHANGED <<files, disk, mainVars>>

\* lines 259-280: one pass of the splitting loop
ChunkLoop ==
    /\ cpc = "loop"
    /\ i < Len(text_parts)
    /\ LET st == LoopBody(LoopState, text_parts, i + 1, ChunkProject)
       IN /\ chunks' = st.chunks
          /\ current_chunk' = st.current_chunk
          /\ current_size' = st.current_size
          /\ chunk_num' = st.chunk_num
    /\ i' = i + 1
    /\ UNCHANGED <<messages, text_parts, cpc>>
    /\ UNCHANGED <<files, disk, mainVars>>

\* lines 282-289: the last chunk and the return
ChunkLast ==
    /\ cpc = "loop"
    /\ i = Len(text_parts)
    /\ LET st == LastChunk(LoopState, ChunkProject)
       IN /\ chunks' = st.chunks
          /\ chunk_num' = st.chunk_num
    /\ cpc' = "returned"
    /\ UNCHANGED <<messages, text_parts, current_chunk, current_size, i>>
    /\ UNCHANGED <<files, disk, mainVars>>

ChunkNext == ChunkExtract \/ ChunkLoop \/ ChunkLast

SpecChunk == ChunkInit /\ [][ChunkNext]_vars

\* the stepwise run and the function agree
ChunkAgree == cpc = "returned" => chunks = chunk_session(messages, ChunkProject)

\* ------------------------------------------------------------- claims on chunk_session
NumLines(text) == 1 + Cardinality({j \in 1..Len(text) : text[j].k = "sep"})

\* C3 as stated: when the joined text is over the budget, every chunk is within
\* the budget unless it is one line that alone is over the budget.
ChunksWithinBudget ==
    cpc = "returned" /\ text_parts # <<>> /\ TextLen(Join(text_parts)) > CHUNK_SIZE =>
        \A c \in 1..Len(chunks) :
            \/ TextLen(chunks[c].content) <= CHUNK_SIZE
            \/ NumLines(chunks[c].content) = 1

\* C7: a session with a line, whose joined text is within the budget, comes back
\* as one chunk holding that text, without a pass of the splitting loop.
SmallSessionOneChunk ==
    cpc = "returned" /\ text_parts # <<>> /\ TextLen(Join(text_parts)) <= CHUNK_SIZE =>
        /\ Len(chunks) = 1
        /\ chunks[1].content = Join(text_parts)
        /\ i = 0 /\ chunk_num = 0 /\ current_chunk = <<>>

\* two lines that fill the budget to the last character, returned as one chunk
SmallSessionAtBudget ==
    /\ cpc = "returned"
    /\ Len(text_parts) = 2
    /\ TextLen(Join(text_parts)) = CHUNK_SIZE
    /\ Len(chunks) = 1

\* the lines of a chunk's text: what stands between its separators
RECURSIVE SplitLines(_)
SplitLines(text) ==
    LET seps == {j \in 1..Len(text) : text[j].k = "sep"}
    IN IF text = <<>> THEN <<>>
       ELSE IF seps = {} THEN <<text>>
       ELSE LET j == CHOOSE x \in seps : \A y \in seps : x <= y
            IN <<SubSeq(text, 1, j - 1)>> \o SplitLines(SubSeq(text, j + 1, Len(text)))

\* the lines of the chunks, one chunk after the other
RECURSIVE LinesOf(_)
LinesOf(cs) ==
    IF cs = <<>> THEN <<>> ELSE SplitLines(Head(cs).content) \o LinesOf(Tail(cs))

\* C11: the chunks partition the lines.  While the loop runs, the lines of the
\* chunks closed so far followed by the lines held are the lines read so far; when
\* chunk_session has returned, every chunk has text and the lines of the chunks,
\* in the order of the chunks, are the session's lines, each one whole and once.
ChunksPartitionLines ==
    /\ cpc = "loop" => LinesOf(chunks) \o current_chunk = SubSeq(text_parts, 1, i)
    /\ cpc = "returned" =>
           /\ LinesOf(chunks) = text_parts
           /\ \A c \in 1..Len(chunks) :
                  /\ TextLen(chunks[c].content) > 0
                  /\ \A l \in 1..Len(SplitLines(chunks[c].content)) :
                         SplitLines(chunks[c].content)[l] # <<>>

\* three lines over the budget, returned as a chunk of two lines and the last line
\* as the final chunk
SplitIntoTwoChunks ==
    /\ cpc = "returned"
    /\ Len(text_parts) = 3
    /\ Len(chunks) = 2
    /\ Len(SplitLines(chunks[1].content)) = 2
    /\ SplitLines(chunks[2].content) = <<text_parts[3]>>

\* ------------------------------------------------------------- a Bash call, rendered
\* One record holding a Bash call, through the extraction of chunk_session and
\* through export_chat.py.
BashInit ==
    /\ PipelineOff
    /\ messages \in {<<BashUse(n)>> : n \in 0..MaxCmd}
    /\ text_parts = <<>>
    /\ chunks = <<>>
    /\ current_chunk = <<>>
    /\ current_size = 0
    /\ chunk_num = 0
    /\ i = 0
    /\ cpc = "extract"

\* export_chat.py lines 50-99 for the record: its content under the heading
ExportChat ==
    /\ cpc = "extract"
    /\ text_parts' = <<<<Lit("lit", "## Claude", 9)>> \o export_annotation(messages[1])>>
    /\ cpc' = "exported"
    /\ UNCHANGED <<messages, chunks, current_chunk, current_size, chunk_num, i>>
    /\ UNCHANGED <<files, disk, mainVars>>

BashNext == ChunkExtract \/ ExportChat

SpecBash == BashInit /\ [][BashNext]_vars

\* the characters of the command a rendered text shows, and whether "..." follows
ShownChars(text) == TextLen(SelectSeq(text, IsContent))
HasEllipsis(text) == \E j \in 1..Len(text) : text[j].k = "lit" /\ text[j].who = "..."

\* C13 as stated: the line extract_text_from_message returns for a Bash call shows
\* the first 100 characters of a longer command and then an ellipsis, and a
\* command of at most 100 characters whole.
BashCommandCutAt100 ==
    cpc = "returned" =>
        LET cmd == messages[1].cmd
            text == text_parts[1]
        IN IF cmd > 100
           THEN ShownChars(text) = 100 /\ HasEllipsis(text)
           ELSE ShownChars(text) = cmd /\ ~HasEllipsis(text)

\* C15: a pass of the splitting loop closes the current chunk before its line
\* exactly when the chunk holds a line and either the line would take the running
\* size over the budget, or the running size is over a third of the budget and
\* is_topic_shift holds of the line and the line before it.  So a close that the
\* budget did not force finds the running size over a third of the budget and a
\* User line of 30 characters or more; and the line starts the next chunk.
ClosesExactlyOnSizeOrTopic ==
    [][ChunkLoop =>
          LET part == text_parts[i + 1]
              prev_part == IF i > 0 THEN text_parts[i] ELSE <<>>
              closed == Len(chunks') = Len(chunks) + 1
              over == current_size + TextLen(part) > CHUNK_SIZE
          IN /\ closed <=> /\ current_chunk # <<>>
                           /\ \/ over
                              \/ /\ 3 * current_size > CHUNK_SIZE
                                 /\ is_topic_shift(part, prev_part)
             /\ closed /\ ~over => /\ 3 * current_size > CHUNK_SIZE
                                   /\ IsUserPart(part)
                                   /\ TextLen(PartMsg(part)) >= 30
             /\ closed => current_chunk' = <<part>> /\ current_size' = TextLen(part)
             /\ ~closed => chunks' = chunks /\ current_chunk' = Append(current_chunk, part)]_vars

\* a chunk has just been closed before a line that would have fitted the budget
ClosedByTopicShift ==
    /\ cpc = "loop"
    /\ i >= 2
    /\ Len(chunks) = 1
    /\ Len(current_chunk) = 1
    /\ TextLen(chunks[1].content) + current_size <= CHUNK_SIZE
    /\ IsUserPart(current_chunk[1])

====
